---- MODULE Spec2Model ----
(***************************************************************************)
(* The native shell of the Gruenerator desktop application                 *)
(* (apps/desktop/src-tauri/src/lib.rs): the splash-to-main startup race,   *)
(* the tray visibility toggle, the menu router, the deep-link router, the  *)
(* update checker and the single-instance callback.                        *)
(*                                                                         *)
(* Host model.  The windowing toolkit is external to the repository.  A    *)
(* call on a present window has its documented effect (show makes it       *)
(* visible, hide makes it hidden, close removes it, set_focus focuses it,  *)
(* set_fullscreen sets the flag); every such result is discarded by the    *)
(* code with `let _ =`.  The calls whose result the code branches on       *)
(* (is_visible, is_fullscreen, updater build and check) can fail, and the  *)
(* failure is an input of the handler.  Strings that the code inspects     *)
(* (deep-link URLs) are sequences of one-character strings.                *)
(***************************************************************************)
EXTENDS Naturals, Sequences, FiniteSets

VARIABLES
    win,        \* the two windows: splash presence, main presence and flags
    readyPc,    \* position of the close_splashscreen command (the ready signal)
    timerPc,    \* position of the fallback timer thread spawned in setup
    exited,     \* the process has called app.exit
    exitCode,   \* the code passed to app.exit (NoCode before)
    last,       \* the most recent handler invocation: its input and its output
                \* (a record whose field op names the handler)
    pkg         \* the packages/desktop shell run on the same events: its
                \* windows and what its most recent handler emitted

vars == <<win, readyPc, timerPc, exited, exitCode, last, pkg>>

\* ------------------------------------------------------------------ bounds

\* Longest deep-link activation batch.
MaxBatch == 2

\* ------------------------------------------------------------- window state

\* The exit code of the process: none while it runs, <<c>> after app.exit(c).
NoCode == <<>>

\* Window state after setup: the splash is up, main (when the host
\* configuration creates one) is hidden, unfocused, not fullscreen.
InitialWindows(hasMain) ==
    [splashscreen |-> TRUE, main |-> hasMain, visible |-> FALSE,
     focused |-> FALSE, fullscreen |-> FALSE]

CloseSplashWrongLabel(w) == w

CloseSplashOnlyWithMain(w) ==
    IF w.splashscreen /\ w.main THEN [w EXCEPT !.splashscreen = FALSE] ELSE w

\* if let Some(splashscreen) = get_webview_window("splashscreen") { close }
CloseSplashIfPresent(w) ==
    IF w.splashscreen THEN [w EXCEPT !.splashscreen = FALSE] ELSE w

ShowMainToggles(w) ==
    IF w.main THEN [w EXCEPT !.visible = ~w.visible] ELSE w

\* if let Some(main_window) = get_webview_window("main") { show }
ShowMainIfPresent(w) ==
    IF w.main THEN [w EXCEPT !.visible = TRUE] ELSE w

\* Outcome of a host query whose Result the code inspects.
QueryOutcomes == {"Ok", "Err"}

IsVisibleOrTrue(w, q) == IF q = "Ok" THEN w.visible ELSE TRUE

\* window.is_visible().unwrap_or(false)
IsVisibleOrFalse(w, q) == IF q = "Ok" THEN w.visible ELSE FALSE

ToggleWithoutFocus(w, q) ==
    IF w.main
    THEN IF IsVisibleOrFalse(w, q)
         THEN [w EXCEPT !.visible = FALSE]
         ELSE [w EXCEPT !.visible = TRUE]
    ELSE w

\* fn toggle_window_visibility(app)
toggle_window_visibility(w, q) ==
    IF w.main
    THEN IF IsVisibleOrFalse(w, q)
         THEN [w EXCEPT !.visible = FALSE]
         ELSE [w EXCEPT !.visible = TRUE, !.focused = TRUE]
    ELSE w

SingleInstanceToggles(w) == toggle_window_visibility(w, "Ok")

SingleInstanceFocusOnly(w) ==
    IF w.main THEN [w EXCEPT !.focused = TRUE] ELSE w

\* The single-instance callback run in the existing instance.
single_instance_callback(w) ==
    IF w.main THEN [w EXCEPT !.visible = TRUE, !.focused = TRUE] ELSE w

\* ------------------------------------------------------------ notifications

Unit == "()"

Notification(name, payload) == [event |-> name, payload |-> payload]

\* ---------------------------------------------------------------- menu router

RoutedIds ==
    {"new", "settings", "reload", "fullscreen", "zoom_in", "zoom_out",
     "zoom_reset", "docs", "feedback", "about", "check_updates"}

\* Identifiers that reach the handler without being routed: the tray menu's
\* items, predefined items, and near misses of routed identifiers.
OtherIds == {"tray_show_hide", "tray_quit", "undo", "quit", "Fullscreen", "zoom"}

MenuIds == RoutedIds \cup OtherIds

DocsUrl == "https://gruenerator.de/"

FeedbackUrl == "https://gitlab.com/Netzbegruenung/gruenerator/-/issues"

MenuFullscreenOnlyWhenVisible(id, w, fsq) ==
    CASE id = "fullscreen" /\ fsq = "Ok" /\ w.visible ->
            [win |-> [w EXCEPT !.fullscreen = ~w.fullscreen], emitted |-> <<>>]
      [] id = "about" -> [win |-> w, emitted |-> <<Notification("menu-about", Unit)>>]
      [] OTHER -> [win |-> w, emitted |-> <<>>]

MenuFullscreenAlwaysOn(id, w, fsq) ==
    CASE id = "fullscreen" ->
            [win |-> [w EXCEPT !.fullscreen = TRUE], emitted |-> <<>>]
      [] id = "about" -> [win |-> w, emitted |-> <<Notification("menu-about", Unit)>>]
      [] OTHER -> [win |-> w, emitted |-> <<>>]

MenuZoomOutSaysIn(id, w, fsq) ==
    CASE id = "zoom_out" -> [win |-> w, emitted |-> <<Notification("menu-zoom", "in")>>]
      [] id = "zoom_in" -> [win |-> w, emitted |-> <<Notification("menu-zoom", "in")>>]
      [] id = "fullscreen" /\ fsq = "Ok" ->
            [win |-> [w EXCEPT !.fullscreen = ~w.fullscreen], emitted |-> <<>>]
      [] OTHER -> [win |-> w, emitted |-> <<>>]

MenuUnknownFallsToAbout(id, w, fsq) ==
    IF id = "fullscreen"
    THEN [win |-> [w EXCEPT !.fullscreen = ~w.fullscreen], emitted |-> <<>>]
    ELSE [win |-> w, emitted |-> <<Notification("menu-about", Unit)>>]

\* The match of main_window.on_menu_event.  fsq is the outcome of
\* window.is_fullscreen(); the result is the window state and the
\* notifications emitted, in order.
on_menu_event(id, w, fsq) ==
    CASE id = "new"           -> [win |-> w, emitted |-> <<Notification("menu-new", Unit)>>]
      [] id = "settings"      -> [win |-> w, emitted |-> <<Notification("menu-settings", Unit)>>]
      [] id = "reload"        -> [win |-> w, emitted |-> <<Notification("menu-reload", Unit)>>]
      [] id = "fullscreen"    ->
            IF fsq = "Ok"
            THEN [win |-> [w EXCEPT !.fullscreen = ~w.fullscreen], emitted |-> <<>>]
            ELSE [win |-> w, emitted |-> <<>>]
      [] id = "zoom_in"       -> [win |-> w, emitted |-> <<Notification("menu-zoom", "in")>>]
      [] id = "zoom_out"      -> [win |-> w, emitted |-> <<Notification("menu-zoom", "out")>>]
      [] id = "zoom_reset"    -> [win |-> w, emitted |-> <<Notification("menu-zoom", "reset")>>]
      [] id = "docs"          -> [win |-> w, emitted |-> <<Notification("menu-open-url", DocsUrl)>>]
      [] id = "feedback"      -> [win |-> w, emitted |-> <<Notification("menu-open-url", FeedbackUrl)>>]
      [] id = "about"         -> [win |-> w, emitted |-> <<Notification("menu-about", Unit)>>]
      [] id = "check_updates" -> [win |-> w, emitted |-> <<Notification("menu-check-updates", Unit)>>]
      [] OTHER                -> [win |-> w, emitted |-> <<>>]

\* The handler is installed in setup only when the main window exists.
MenuDispatch(id, w, fsq) ==
    IF w.main THEN on_menu_event(id, w, fsq) ELSE [win |-> w, emitted |-> <<>>]

\* ------------------------------------------------------------ tray controller

TrayMenuIds == {"tray_show_hide", "tray_separator", "tray_quit", "new", "quit"}

NoButton == "None"

TrayIconEvents ==
    [type : {"Click"}, button : {"Left", "Right", "Middle"}, button_state : {"Up", "Down"}]
    \cup [type : {"DoubleClick"}, button : {"Left", "Right", "Middle"}, button_state : {NoButton}]
    \cup [type : {"Enter", "Move", "Leave"}, button : {NoButton}, button_state : {NoButton}]

IsAnyLeftClick(e) == e.type = "Click" /\ e.button = "Left"

\* if let TrayIconEvent::Click { button: Left, button_state: Up, .. } = event
IsLeftClickRelease(e) ==
    e.type = "Click" /\ e.button = "Left" /\ e.button_state = "Up"

\* The closure given to on_tray_icon_event.
on_tray_icon_event(e, w, q) ==
    IF IsLeftClickRelease(e) THEN toggle_window_visibility(w, q) ELSE w

TrayQuitExitsWithOne(id, w, q) ==
    CASE id = "tray_show_hide" ->
            [win |-> toggle_window_visibility(w, q), exit |-> FALSE, code |-> NoCode]
      [] id = "tray_quit" -> [win |-> w, exit |-> TRUE, code |-> <<1>>]
      [] OTHER -> [win |-> w, exit |-> FALSE, code |-> NoCode]

\* The closure given to the tray's on_menu_event: the window state after it,
\* and whether (and with which code) it called app.exit.
tray_on_menu_event(id, w, q) ==
    CASE id = "tray_show_hide" ->
            [win |-> toggle_window_visibility(w, q), exit |-> FALSE, code |-> NoCode]
      [] id = "tray_quit" -> [win |-> w, exit |-> TRUE, code |-> <<0>>]
      [] OTHER -> [win |-> w, exit |-> FALSE, code |-> NoCode]

\* Process exit destroys every window.
WindowsAfterExit(w) ==
    [w EXCEPT !.splashscreen = FALSE, !.main = FALSE, !.visible = FALSE,
              !.focused = FALSE, !.fullscreen = FALSE]

\* ------------------------------------------------------------ deep-link router

\* "gruenerator://auth/callback"
CallbackPrefix ==
    <<"g", "r", "u", "e", "n", "e", "r", "a", "t", "o", "r", ":", "/", "/",
      "a", "u", "t", "h", "/", "c", "a", "l", "l", "b", "a", "c", "k">>

\* The URL strings (url.to_string()) an activation may deliver: the bare
\* callback, a callback with a query, the callback cut one character short,
\* and a foreign URL that holds the callback further in.
Urls ==
    { CallbackPrefix,
      CallbackPrefix \o <<"?", "c", "=", "1">>,
      SubSeq(CallbackPrefix, 1, Len(CallbackPrefix) - 1),
      <<"x", ":", "/", "/">> \o CallbackPrefix }

Batches == UNION { [1..n -> Urls] : n \in 0..MaxBatch }

\* str::starts_with: the pattern is no longer than the string and the
\* string's leading bytes are the pattern's.
starts_with(s, pat) ==
    /\ Len(pat) <= Len(s)
    /\ \A i \in 1..Len(pat) : s[i] = pat[i]

RECURSIVE OpenUrlFirstMatchOnly(_)
OpenUrlFirstMatchOnly(urls) ==
    IF urls = <<>>
    THEN <<>>
    ELSE IF starts_with(Head(urls), CallbackPrefix)
         THEN <<Notification("deep-link-auth", Head(urls))>>
         ELSE OpenUrlFirstMatchOnly(Tail(urls))

\* The closure given to deep_link().on_open_url: the for loop over the
\* batch, from its first URL to its last.
RECURSIVE on_open_url(_)
on_open_url(urls) ==
    IF urls = <<>>
    THEN <<>>
    ELSE LET url_str == Head(urls)
             rest == on_open_url(Tail(urls))
         IN IF starts_with(url_str, CallbackPrefix)
            THEN <<Notification("deep-link-auth", url_str)>> \o rest
            ELSE rest

\* ------------------------------------------------------------- update checker

None == [some |-> FALSE]

Some(v) == [some |-> TRUE, value |-> v]

Option(S) == {None} \cup {Some(v) : v \in S}

Ok(v) == [ok |-> TRUE, value |-> v]

Err(m) == [ok |-> FALSE, error |-> m]

\* app.package_info().version
CurrentVersion == "1.0.0"

Versions == {"1.2.3", "2.0.0"}

Notes == {"fixes", ""}

Messages == {"network unreachable", "bad endpoint"}

\* updater_builder().build(): built, or an error with its message.
BuildOutcomes == {Ok(Unit)} \cup {Err(m) : m \in Messages}

\* updater.check().await as the host reports it: an update (its version, its
\* optional release notes), no update (with whatever the service attached,
\* which Ok(None) does not carry), or an error with its message.
CheckOutcomes ==
    [kind : {"Found"}, version : Versions, body : Option(Notes)]
    \cup [kind : {"NotFound"}, version : Option(Versions), body : Option(Notes)]
    \cup [kind : {"Failed"}, message : Messages]

UpdateCheckResult(available, version, current_version, body) ==
    [available |-> available, version |-> version,
     current_version |-> current_version, body |-> body]

CheckPassesAttachments(build, check) ==
    IF ~build.ok
    THEN Err(build.error)
    ELSE CASE check.kind = "Found" ->
                 Ok(UpdateCheckResult(TRUE, Some(check.version), CurrentVersion, check.body))
           [] check.kind = "NotFound" ->
                 Ok(UpdateCheckResult(FALSE, check.version, CurrentVersion, check.body))
           [] check.kind = "Failed" -> Err(check.message)

CheckReportsOwnVersion(build, check) ==
    IF ~build.ok
    THEN Err(build.error)
    ELSE CASE check.kind = "Found" ->
                 Ok(UpdateCheckResult(TRUE, Some(CurrentVersion), CurrentVersion, check.body))
           [] check.kind = "NotFound" ->
                 Ok(UpdateCheckResult(FALSE, None, CurrentVersion, None))
           [] check.kind = "Failed" -> Err(check.message)

CheckDowngradesFailure(build, check) ==
    IF ~build.ok
    THEN Err(build.error)
    ELSE CASE check.kind = "Found" ->
                 Ok(UpdateCheckResult(TRUE, Some(check.version), CurrentVersion, check.body))
           [] OTHER -> Ok(UpdateCheckResult(FALSE, None, CurrentVersion, None))

\* async fn check_for_update(app) -> Result<UpdateCheckResult, String>
check_for_update(build, check) ==
    LET current_version == CurrentVersion
    IN IF ~build.ok
       THEN Err(build.error)
       ELSE CASE check.kind = "Found" ->
                    Ok(UpdateCheckResult(TRUE, Some(check.version),
                                         current_version, check.body))
              [] check.kind = "NotFound" ->
                    Ok(UpdateCheckResult(FALSE, None, current_version, None))
              [] check.kind = "Failed" -> Err(check.message)

\* ------------------------------------------------- autostart and theme commands

\* Values that cross the command boundary, each tagged with its Rust type.
Bool(b) == [bool |-> b]

Str(t) == [str |-> t]

UnitValue == [unit |-> Unit]

\* What a host call returns: its value, or an error with its message.
HostResults(values) == {Ok(v) : v \in values} \cup {Err(m) : m \in Messages}

\* e.to_string() under map_err: the error's message.
map_err_to_string(r) == IF r.ok THEN r ELSE Err(r.error)

\* async fn get_autostart_enabled(app) -> Result<bool, String>
\* host is the outcome of autolaunch().is_enabled().
get_autostart_enabled(host) == map_err_to_string(host)

\* async fn set_autostart_enabled(app, enabled) -> Result<(), String>
\* The host call it makes, and what it returns given that call's outcome.
set_autostart_enabled(enabled, host) ==
    IF enabled
    THEN [call |-> "enable", returned |-> map_err_to_string(host)]
    ELSE [call |-> "disable", returned |-> map_err_to_string(host)]

\* The themes window.theme() reports.
Themes == {Str("Dark"), Str("Light")}

\* async fn get_system_theme(window) -> Result<String, String>
\* host is the outcome of window.theme().
get_system_theme(host) ==
    CASE host.ok /\ host.value = Str("Dark") -> Ok(Str("dark"))
      [] host.ok /\ host.value = Str("Light") -> Ok(Str("light"))
      [] OTHER -> Ok(Str("light"))

\* The theme names the UI layer passes to set_window_theme.
ThemeNames == {"dark", "light", "auto"}

\* async fn set_window_theme(window, theme) -> Result<(), String>
\* The theme it hands to window.set_theme, and what it returns given that
\* call's outcome.
set_window_theme(theme, host) ==
    LET tauri_theme == CASE theme = "dark" -> Some("Dark")
                         [] theme = "light" -> Some("Light")
                         [] OTHER -> None
    IN [call |-> tauri_theme, returned |-> map_err_to_string(host)]

\* ------------------------------------------------- the packages/desktop shell

\* Window state of the packages/desktop shell after setup.
PkgInitialWindows(hasMain) ==
    [splashscreen |-> TRUE, main |-> hasMain, visible |-> FALSE]

\* packages/desktop: if let Some(splashscreen) = ... { splashscreen.close() }
PkgCloseSplashIfPresent(w) ==
    IF w.splashscreen THEN [w EXCEPT !.splashscreen = FALSE] ELSE w

\* packages/desktop: if let Some(main_window) = ... { main_window.show() }
PkgShowMainIfPresent(w) ==
    IF w.main THEN [w EXCEPT !.visible = TRUE] ELSE w

\* packages/desktop: "gruenerator://auth/callback"
PkgCallbackPrefix ==
    <<"g", "r", "u", "e", "n", "e", "r", "a", "t", "o", "r", ":", "/", "/",
      "a", "u", "t", "h", "/", "c", "a", "l", "l", "b", "a", "c", "k">>

RECURSIVE PkgOpenUrlExactMatch(_)
PkgOpenUrlExactMatch(urls) ==
    IF urls = <<>>
    THEN <<>>
    ELSE IF Head(urls) = PkgCallbackPrefix
         THEN <<Notification("deep-link-auth", Head(urls))>>
                  \o PkgOpenUrlExactMatch(Tail(urls))
         ELSE PkgOpenUrlExactMatch(Tail(urls))

\* packages/desktop: the closure given to deep_link().on_open_url.
RECURSIVE pkg_on_open_url(_)
pkg_on_open_url(urls) ==
    IF urls = <<>>
    THEN <<>>
    ELSE LET url_str == Head(urls)
             rest == pkg_on_open_url(Tail(urls))
         IN IF starts_with(url_str, PkgCallbackPrefix)
            THEN <<Notification("deep-link-auth", url_str)>> \o rest
            ELSE rest

\* -------------------------------------------------------- single-instance guard

\* The windows that exist.
Windows(w) ==
    (IF w.splashscreen THEN {"splashscreen"} ELSE {})
    \cup (IF w.main THEN {"main"} ELSE {})

\* What the single-instance primitive does with the second process: it
\* forwards the activation, creates no window and exits with code 0.
SecondProcess == [exit_code |-> <<0>>, windows_created |-> {}]

\* ------------------------------------------------------------------- actions

Init ==
    /\ win \in {InitialWindows(hasMain) : hasMain \in BOOLEAN}
    /\ readyPc = "pending"
    /\ timerPc = "sleeping"
    /\ exited = FALSE
    /\ exitCode = NoCode
    /\ last = [op |-> "setup"]
    /\ pkg = [win |-> PkgInitialWindows(win.main), emitted |-> <<>>]

\* close_splashscreen, invoked by the UI layer: its first statement.
ReadyCloseSplash ==
    /\ ~exited
    /\ readyPc = "pending"
    /\ win' = CloseSplashIfPresent(win)
    /\ readyPc' = "show_main"
    /\ last' = [op |-> "close_splashscreen", step |-> "close_splash"]
    /\ UNCHANGED <<timerPc, exited, exitCode, pkg>>

\* close_splashscreen: its second statement.
ReadyShowMain ==
    /\ ~exited
    /\ readyPc = "show_main"
    /\ win' = ShowMainIfPresent(win)
    /\ readyPc' = "done"
    /\ last' = [op |-> "close_splashscreen", step |-> "show_main"]
    /\ UNCHANGED <<timerPc, exited, exitCode, pkg>>

\* The fallback thread: the sleep is over, then its first statement.
TimerCloseSplash ==
    /\ ~exited
    /\ timerPc = "sleeping"
    /\ win' = CloseSplashIfPresent(win)
    /\ timerPc' = "show_main"
    /\ last' = [op |-> "fallback_timer", step |-> "close_splash"]
    /\ UNCHANGED <<readyPc, exited, exitCode, pkg>>

\* The fallback thread: its second statement.
TimerShowMain ==
    /\ ~exited
    /\ timerPc = "show_main"
    /\ win' = ShowMainIfPresent(win)
    /\ timerPc' = "done"
    /\ last' = [op |-> "fallback_timer", step |-> "show_main"]
    /\ UNCHANGED <<readyPc, exited, exitCode, pkg>>

\* The toggle that the event before this one made, if it was a left-button
\* click-release on the tray icon: the outcome of its visibility query and
\* the visibility it found.
PreviousToggle ==
    IF last.op = "tray_icon_event" /\ IsLeftClickRelease(last.event)
    THEN <<last.query, last.before>>
    ELSE <<>>

\* An event of the tray icon.
TrayIconEvent ==
    /\ ~exited
    /\ \E e \in TrayIconEvents, q \in QueryOutcomes :
          /\ win' = on_tray_icon_event(e, win, q)
          /\ last' = [op |-> "tray_icon_event", event |-> e, query |-> q,
                      before |-> win.visible, prev |-> PreviousToggle]
    /\ UNCHANGED <<readyPc, timerPc, exited, exitCode, pkg>>

\* An activation of a menu item, as the tray's handler sees it.
TrayMenuEvent ==
    /\ ~exited
    /\ \E id \in TrayMenuIds, q \in QueryOutcomes :
          LET r == tray_on_menu_event(id, win, q)
          IN /\ win' = IF r.exit THEN WindowsAfterExit(r.win) ELSE r.win
             /\ exited' = r.exit
             /\ exitCode' = r.code
             /\ last' = [op |-> "tray_menu_event", id |-> id, query |-> q]
    /\ UNCHANGED <<readyPc, timerPc, pkg>>

\* An activation of a menu item, as the main window's handler sees it.
MenuEvent ==
    /\ ~exited
    /\ \E id \in MenuIds, fsq \in QueryOutcomes :
          LET r == MenuDispatch(id, win, fsq)
          IN /\ win' = r.win
             /\ last' = [op |-> "menu_event", id |-> id, query |-> fsq,
                         emitted |-> r.emitted]
    /\ UNCHANGED <<readyPc, timerPc, exited, exitCode, pkg>>

\* A deep-link activation with a batch of URLs.
OpenUrl ==
    /\ ~exited
    /\ \E urls \in Batches :
          last' = [op |-> "open_url", urls |-> urls, emitted |-> on_open_url(urls)]
    /\ UNCHANGED <<win, readyPc, timerPc, exited, exitCode, pkg>>

\* The UI layer's check_for_update request.
CheckForUpdate ==
    /\ ~exited
    /\ \E build \in BuildOutcomes, check \in CheckOutcomes :
          last' = [op |-> "check_for_update", build |-> build, check |-> check,
                   returned |-> check_for_update(build, check)]
    /\ UNCHANGED <<win, readyPc, timerPc, exited, exitCode, pkg>>

\* The UI layer's get_autostart_enabled request.
GetAutostartEnabled ==
    /\ ~exited
    /\ \E host \in HostResults({Bool(b) : b \in BOOLEAN}) :
          last' = [op |-> "get_autostart_enabled", outcome |-> host,
                   returned |-> get_autostart_enabled(host)]
    /\ UNCHANGED <<win, readyPc, timerPc, exited, exitCode, pkg>>

\* The UI layer's set_autostart_enabled request.
SetAutostartEnabled ==
    /\ ~exited
    /\ \E enabled \in BOOLEAN, host \in HostResults({UnitValue}) :
          LET r == set_autostart_enabled(enabled, host)
          IN last' = [op |-> "set_autostart_enabled", wanted |-> enabled,
                      outcome |-> host, request |-> r.call, returned |-> r.returned]
    /\ UNCHANGED <<win, readyPc, timerPc, exited, exitCode, pkg>>

\* The UI layer's get_system_theme request.
GetSystemTheme ==
    /\ ~exited
    /\ \E host \in HostResults(Themes) :
          last' = [op |-> "get_system_theme", outcome |-> host,
                   returned |-> get_system_theme(host)]
    /\ UNCHANGED <<win, readyPc, timerPc, exited, exitCode, pkg>>

\* The UI layer's set_window_theme request.
SetWindowTheme ==
    /\ ~exited
    /\ \E theme \in ThemeNames, host \in HostResults({UnitValue}) :
          LET r == set_window_theme(theme, host)
          IN last' = [op |-> "set_window_theme", theme |-> theme,
                      outcome |-> host, set_theme |-> r.call, returned |-> r.returned]
    /\ UNCHANGED <<win, readyPc, timerPc, exited, exitCode, pkg>>

\* A second process is launched while this one holds the claim.
SecondInstance ==
    /\ ~exited
    /\ win' = single_instance_callback(win)
    /\ last' = [op |-> "single_instance", second |-> SecondProcess, before |-> win]
    /\ UNCHANGED <<readyPc, timerPc, exited, exitCode, pkg>>

Next ==
    \/ ReadyCloseSplash
    \/ ReadyShowMain
    \/ TimerCloseSplash
    \/ TimerShowMain
    \/ TrayIconEvent
    \/ TrayMenuEvent
    \/ MenuEvent
    \/ OpenUrl
    \/ CheckForUpdate
    \/ GetAutostartEnabled
    \/ SetAutostartEnabled
    \/ GetSystemTheme
    \/ SetWindowTheme
    \/ SecondInstance

Spec == Init /\ [][Next]_vars

\* The fallback thread is an operating-system thread of its own: once
\* spawned it runs to its end unless the process exits.
TimerFairness == WF_vars(TimerCloseSplash) /\ WF_vars(TimerShowMain)

FairSpec == Spec /\ TimerFairness

\* ------------------------------------------------------- both shells together

\* The ready signal reaches both shells: the first statement of each.
BothReadyCloseSplash ==
    /\ readyPc = "pending"
    /\ win' = CloseSplashIfPresent(win)
    /\ pkg' = [win |-> PkgCloseSplashIfPresent(pkg.win), emitted |-> <<>>]
    /\ readyPc' = "show_main"
    /\ last' = [op |-> "close_splashscreen", step |-> "close_splash"]
    /\ UNCHANGED <<timerPc, exited, exitCode>>

\* The ready signal in both shells: the second statement of each.
BothReadyShowMain ==
    /\ readyPc = "show_main"
    /\ win' = ShowMainIfPresent(win)
    /\ pkg' = [win |-> PkgShowMainIfPresent(pkg.win), emitted |-> <<>>]
    /\ readyPc' = "done"
    /\ last' = [op |-> "close_splashscreen", step |-> "show_main"]
    /\ UNCHANGED <<timerPc, exited, exitCode>>

\* The fallback timer expires in both shells: the first statement of each.
BothTimerCloseSplash ==
    /\ timerPc = "sleeping"
    /\ win' = CloseSplashIfPresent(win)
    /\ pkg' = [win |-> PkgCloseSplashIfPresent(pkg.win), emitted |-> <<>>]
    /\ timerPc' = "show_main"
    /\ last' = [op |-> "fallback_timer", step |-> "close_splash"]
    /\ UNCHANGED <<readyPc, exited, exitCode>>

\* The fallback timer in both shells: the second statement of each.
BothTimerShowMain ==
    /\ timerPc = "show_main"
    /\ win' = ShowMainIfPresent(win)
    /\ pkg' = [win |-> PkgShowMainIfPresent(pkg.win), emitted |-> <<>>]
    /\ timerPc' = "done"
    /\ last' = [op |-> "fallback_timer", step |-> "show_main"]
    /\ UNCHANGED <<readyPc, exited, exitCode>>

\* The same deep-link batch is delivered to both shells.
BothOpenUrl ==
    /\ \E urls \in Batches :
          /\ last' = [op |-> "open_url", urls |-> urls, emitted |-> on_open_url(urls)]
          /\ pkg' = [pkg EXCEPT !.emitted = pkg_on_open_url(urls)]
    /\ UNCHANGED <<win, readyPc, timerPc, exited, exitCode>>

PairNext ==
    \/ BothReadyCloseSplash
    \/ BothReadyShowMain
    \/ BothTimerCloseSplash
    \/ BothTimerShowMain
    \/ BothOpenUrl

\* The two shells driven by one sequence of ready signals, timer expiries
\* and deep-link batches, and by nothing else.
PairSpec == Init /\ [][PairNext]_vars

\* -------------------------------------------------------------------- claims

\* A step of the ready signal (close_splashscreen) or of the fallback timer.
ReadyStep == readyPc' # readyPc

TimerStep == timerPc' # timerPc

BothTriggersDone == readyPc = "done" /\ timerPc = "done"

\* C1: in a run whose main window exists, the step that completes the second
\* of the two triggers (ready signal, fallback timer), whatever the order and
\* the interleaving of their statements, leaves the splash closed and main
\* visible; and no step of either trigger reopens the splash or hides main.
C1_StartupEndState ==
    [][ (ReadyStep \/ TimerStep) =>
          /\ (~win.splashscreen => ~win'.splashscreen)
          /\ (win.visible => win'.visible)
          /\ (BothTriggersDone' /\ win'.main =>
                 ~win'.splashscreen /\ win'.visible) ]_vars

\* C1 witness: the timer ran first and the ready signal completed second.
C1_Witness ==
    /\ BothTriggersDone
    /\ last = [op |-> "close_splashscreen", step |-> "show_main"]
    /\ win.main /\ ~win.splashscreen /\ win.visible

\* C2 (as claimed): once one trigger has completed, no step of the other
\* trigger changes the splash's presence or main's visibility.
C2_SecondTriggerIsNoOp ==
    [][ ((readyPc = "done" /\ TimerStep) \/ (timerPc = "done" /\ ReadyStep)) =>
          /\ win'.splashscreen = win.splashscreen
          /\ win'.visible = win.visible ]_vars

\* C3: when the ready signal is never raised, the fallback timer thread,
\* fairly scheduled, brings the system to a state where the splash is closed
\* and the main window, if it exists, is shown.
C3_TimerAloneCompletesStartup ==
    [](readyPc = "pending") => <>(~win.splashscreen /\ (win.main => win.visible))

\* C3 witness: the timer has run to its end, the signal was never raised.
C3_Witness ==
    /\ readyPc = "pending" /\ timerPc = "done" /\ ~exited
    /\ win.main /\ ~win.splashscreen /\ win.visible

\* The most recent event is a left-button click-release on the tray icon of
\* an instance that has a main window.
AfterTrayToggle ==
    /\ last.op = "tray_icon_event"
    /\ IsLeftClickRelease(last.event)
    /\ win.main

\* C4 (as claimed): a tray left-button click-release hides a visible main
\* window and shows and focuses a hidden one, and two such clicks in a row
\* return main's visibility to its starting value.
C4_ToggleRoundTrip ==
    AfterTrayToggle =>
        /\ win.visible = ~last.before
        /\ (win.visible => win.focused)
        /\ (last.prev # <<>> => win.visible = last.prev[2])

\* C4 (amended): the same, for clicks whose visibility query succeeds.
C4_ToggleRoundTripWhenQueryOk ==
    AfterTrayToggle /\ last.query = "Ok" =>
        /\ win.visible = ~last.before
        /\ (win.visible => win.focused)
        /\ (last.prev # <<>> /\ last.prev[1] = "Ok" => win.visible = last.prev[2])

\* C4 witness: visible, hidden by one click, visible and focused again by
\* the next.
C4_Witness ==
    /\ AfterTrayToggle /\ last.query = "Ok"
    /\ last.prev = <<"Ok", TRUE>> /\ last.before = FALSE
    /\ win.visible /\ win.focused

\* The test of the claim, computed on the whole string.
BeginsWithCallback(url) ==
    Len(url) >= Len(CallbackPrefix)
    /\ SubSeq(url, 1, Len(CallbackPrefix)) = CallbackPrefix

\* How often x occurs in the sequence s.
Occurrences(s, x) == Cardinality({i \in 1..Len(s) : s[i] = x})

\* C5: a deep-link batch emits, for each URL that begins with
\* gruenerator://auth/callback, exactly one deep-link-auth notification
\* carrying that URL, and none for any other URL; the notifications are the
\* batch filtered by the prefix test, in input order.
C5_DeepLinkFilter ==
    last.op = "open_url" =>
        LET matching == SelectSeq(last.urls, BeginsWithCallback)
        IN /\ last.emitted =
                 [i \in 1..Len(matching) |-> Notification("deep-link-auth", matching[i])]
           /\ \A u \in Urls :
                 Occurrences(last.emitted, Notification("deep-link-auth", u)) =
                     IF BeginsWithCallback(u) THEN Occurrences(last.urls, u) ELSE 0

\* C5 witness: a batch of two different callbacks, both forwarded in order.
C5_Witness ==
    /\ last.op = "open_url"
    /\ Len(last.urls) = 2 /\ last.urls[1] # last.urls[2]
    /\ Len(last.emitted) = 2
    /\ last.emitted[1].payload = last.urls[1]
    /\ last.emitted[2].payload = last.urls[2]

\* C6: a result of check_for_update with available = FALSE has no version
\* and no body; for the host outcome "not found" the result is exactly
\* {available: false, version: None, current_version, body: None}, whatever
\* the host attached.
C6_NotFoundIsBare ==
    last.op = "check_for_update" =>
        /\ (last.returned.ok /\ ~last.returned.value.available =>
               last.returned.value.version = None /\ last.returned.value.body = None)
        /\ (last.build.ok /\ last.check.kind = "NotFound" =>
               last.returned = Ok(UpdateCheckResult(FALSE, None, CurrentVersion, None)))

\* C6 witness: "not found" with a version and notes attached by the host.
C6_Witness ==
    /\ last.op = "check_for_update"
    /\ last.build.ok /\ last.check.kind = "NotFound"
    /\ last.check.version = Some("1.2.3") /\ last.check.body = Some("fixes")
    /\ last.returned.ok /\ ~last.returned.value.available

\* C7 (as claimed): for the host outcome "found" the result has available =
\* TRUE, the host's version as Some(v), and the body always as Some(notes).
C7_FoundBodyAlwaysSome ==
    last.op = "check_for_update" /\ last.build.ok /\ last.check.kind = "Found" =>
        /\ last.returned.ok
        /\ last.returned.value.available
        /\ last.returned.value.version = Some(last.check.version)
        /\ last.returned.value.body.some

\* C7 (amended): for the host outcome "found" the result has available =
\* TRUE, the host's version as Some(v), the own version as current_version,
\* and as body the release notes as the host reports them: Some(notes), or
\* None when the update carries none.
C7_FoundPassesHostNotes ==
    last.op = "check_for_update" /\ last.build.ok /\ last.check.kind = "Found" =>
        last.returned = Ok(UpdateCheckResult(TRUE, Some(last.check.version),
                                             CurrentVersion, last.check.body))

\* C7 witness: version 1.2.3 with notes "fixes".
C7_Witness ==
    /\ last.op = "check_for_update"
    /\ last.build.ok
    /\ last.check = [kind |-> "Found", version |-> "1.2.3", body |-> Some("fixes")]
    /\ last.returned = Ok(UpdateCheckResult(TRUE, Some("1.2.3"), CurrentVersion, Some("fixes")))

\* C8: when the updater cannot be built or the check fails, check_for_update
\* returns an error carrying the failure's message, never a result.
C8_FailureIsAnError ==
    last.op = "check_for_update" =>
        /\ (~last.build.ok => last.returned = Err(last.build.error))
        /\ (last.build.ok /\ last.check.kind = "Failed" =>
               last.returned = Err(last.check.message))
        /\ (~last.build.ok \/ last.check.kind = "Failed" =>
               ~last.returned.ok /\ last.returned.error \in Messages)

\* C8 witness: the updater was built and the check failed.
C8_Witness ==
    /\ last.op = "check_for_update"
    /\ last.build.ok /\ last.check.kind = "Failed"
    /\ last.returned = Err("network unreachable")

\* C9: a second launch creates no window in the running instance, makes its
\* main window visible and focused whatever its visibility was, and is a
\* no-op when the instance has no main window; the second process creates no
\* window of its own and exits with code 0.
C9_SecondLaunchRefocuses ==
    last.op = "single_instance" =>
        /\ Windows(win) = Windows(last.before)
        /\ (last.before.main => win.visible /\ win.focused)
        /\ (~last.before.main => win = last.before)
        /\ win.splashscreen = last.before.splashscreen
        /\ win.fullscreen = last.before.fullscreen
        /\ ~exited
        /\ last.second.windows_created = {}
        /\ last.second.exit_code = <<0>>

\* C9 witness: main had been shown by the ready signal and hidden again (by
\* the tray) when the second process was launched.
C9_Witness ==
    /\ last.op = "single_instance"
    /\ readyPc = "done" /\ timerPc = "sleeping"
    /\ last.before.main /\ ~last.before.visible
    /\ win.visible /\ win.focused

\* C10: a menu activation with an identifier that is not routed emits no
\* notification and changes no state of the windows or of the process.
C10_UnknownMenuIdIsNoOp ==
    [][ last'.op = "menu_event" /\ last'.id \notin RoutedIds =>
          /\ last'.emitted = <<>>
          /\ UNCHANGED <<win, readyPc, timerPc, exited, exitCode>> ]_vars

\* C10 witness: the tray's quit item as the main window's handler sees it.
C10_Witness ==
    /\ last.op = "menu_event" /\ last.id = "tray_quit"
    /\ win.main /\ win.visible
    /\ last.emitted = <<>>

\* C11: a "fullscreen" menu activation flips main's fullscreen flag and
\* emits nothing; when main is absent or its fullscreen state cannot be read
\* it changes nothing.
C11_FullscreenFlips ==
    [][ last'.op = "menu_event" /\ last'.id = "fullscreen" =>
          /\ last'.emitted = <<>>
          /\ (win.main /\ last'.query = "Ok" =>
                 win' = [win EXCEPT !.fullscreen = ~win.fullscreen])
          /\ (~win.main \/ last'.query = "Err" => win' = win)
          /\ UNCHANGED <<readyPc, timerPc, exited, exitCode>> ]_vars

\* C11 witness: a fullscreen main window was taken out of fullscreen.
C11_Witness ==
    /\ last.op = "menu_event" /\ last.id = "fullscreen" /\ last.query = "Ok"
    /\ win.main /\ ~win.fullscreen

\* The notification of each routed identifier other than "fullscreen".
ExpectedNotification(id) ==
    CASE id = "new" -> [event |-> "menu-new", payload |-> "()"]
      [] id = "settings" -> [event |-> "menu-settings", payload |-> "()"]
      [] id = "reload" -> [event |-> "menu-reload", payload |-> "()"]
      [] id = "about" -> [event |-> "menu-about", payload |-> "()"]
      [] id = "check_updates" -> [event |-> "menu-check-updates", payload |-> "()"]
      [] id = "zoom_in" -> [event |-> "menu-zoom", payload |-> "in"]
      [] id = "zoom_out" -> [event |-> "menu-zoom", payload |-> "out"]
      [] id = "zoom_reset" -> [event |-> "menu-zoom", payload |-> "reset"]
      [] id = "docs" ->
            [event |-> "menu-open-url", payload |-> "https://gruenerator.de/"]
      [] id = "feedback" ->
            [event |-> "menu-open-url",
             payload |-> "https://gitlab.com/Netzbegruenung/gruenerator/-/issues"]

\* C12: each activation of new, settings, reload, about, check_updates,
\* zoom_in, zoom_out, zoom_reset, docs or feedback, dispatched by the main
\* window's handler, emits exactly one notification: the one named for it,
\* with its payload.
C12_RoutedIdsEmitOne ==
    last.op = "menu_event" /\ win.main /\ last.id \in RoutedIds \ {"fullscreen"} =>
        last.emitted = <<ExpectedNotification(last.id)>>

\* C12 witness: zoom_out emitted menu-zoom with payload out.
C12_Witness ==
    /\ last.op = "menu_event" /\ last.id = "zoom_out" /\ win.main
    /\ last.emitted = <<[event |-> "menu-zoom", payload |-> "out"]>>

\* C13: the tray's quit command ends the process with exit code 0 from
\* every window state, and after it nothing changes any more.
C13_TrayQuitTerminates ==
    [][ /\ (last'.op = "tray_menu_event" /\ last'.id = "tray_quit" =>
               exited' /\ exitCode' = <<0>>)
        /\ (exited => UNCHANGED vars)
        /\ (exited' /\ ~exited => last'.op = "tray_menu_event" /\ last'.id = "tray_quit") ]_vars

\* C13 witness: quit while the splash was still up and the timer asleep.
C13_Witness ==
    /\ exited /\ exitCode = <<0>>
    /\ last.op = "tray_menu_event" /\ last.id = "tray_quit"
    /\ timerPc = "sleeping" /\ readyPc = "pending"

\* A tray input other than the left-button click-release and the quit command.
OtherTrayInput(l) ==
    \/ (l.op = "tray_icon_event" /\ ~(l.event.type = "Click" /\ l.event.button = "Left"
                                         /\ l.event.button_state = "Up"))
    \/ (l.op = "tray_menu_event" /\ l.id # "tray_quit")

\* C14 (as claimed): every tray input other than the left-button
\* click-release and the quit command leaves the windows as they are.
C14_OnlyClickToggles ==
    [][ OtherTrayInput(last') => win' = win ]_vars

\* C14 (amended): the same, for every tray input other than the left-button
\* click-release, the menu item tray_show_hide and the quit command.
C14_OnlyClickAndShowHideToggle ==
    [][ OtherTrayInput(last') /\ ~(last'.op = "tray_menu_event" /\ last'.id = "tray_show_hide") =>
          /\ win' = win
          /\ UNCHANGED <<readyPc, timerPc, exited, exitCode>> ]_vars

\* C14 witness: a left-button press (not yet released) on a visible main.
C14_Witness ==
    /\ last.op = "tray_icon_event"
    /\ last.event = [type |-> "Click", button |-> "Left", button_state |-> "Down"]
    /\ win.main /\ win.visible /\ last.before

\* The request/response operations whose host call's outcome is recorded.
HostCommands ==
    {"get_autostart_enabled", "set_autostart_enabled", "get_system_theme",
     "set_window_theme"}

\* C15 (as claimed): a request/response operation whose host call fails
\* returns an error carrying the failure's message, never a success.
C15_HostFailureIsReturned ==
    /\ (last.op \in HostCommands /\ ~last.outcome.ok =>
           ~last.returned.ok /\ last.returned.error = last.outcome.error)
    /\ (last.op = "check_for_update" /\ (~last.build.ok \/ last.check.kind = "Failed") =>
           ~last.returned.ok)

\* Every state a pair of windows can be in.
WindowStates ==
    [splashscreen : BOOLEAN, main : BOOLEAN, visible : BOOLEAN,
     focused : BOOLEAN, fullscreen : BOOLEAN]

\* C16: what a menu activation emits and the fullscreen value it leaves
\* depend only on the identifier and on main's fullscreen state as
\* is_fullscreen reports it (the same for every visibility, focus and splash
\* state, and for every history); and no menu activation changes main's
\* visibility or focus, the splash, or anything outside the windows.
C16_MenuDispatchConfined ==
    [][ last'.op = "menu_event" =>
          /\ win' = [win EXCEPT !.fullscreen = win'.fullscreen]
          /\ UNCHANGED <<readyPc, timerPc, exited, exitCode>>
          /\ (win.main =>
                 \A w \in WindowStates :
                     w.main /\ w.fullscreen = win.fullscreen =>
                         LET r == MenuDispatch(last'.id, w, last'.query)
                         IN /\ r.emitted = last'.emitted
                            /\ r.win.fullscreen = win'.fullscreen) ]_vars

\* C16 witness: fullscreen was switched on for a main window that is hidden.
C16_Witness ==
    /\ last.op = "menu_event" /\ last.id = "fullscreen" /\ last.query = "Ok"
    /\ win.main /\ ~win.visible /\ win.fullscreen

\* The first and the second statement of a startup trigger.
TriggerCloseStep ==
    \/ (readyPc = "pending" /\ readyPc' # readyPc)
    \/ (timerPc = "sleeping" /\ timerPc' # timerPc)

TriggerShowStep ==
    \/ (readyPc = "show_main" /\ readyPc' # readyPc)
    \/ (timerPc = "show_main" /\ timerPc' # timerPc)

\* The event recorded in l called toggle_window_visibility.
IsToggle(l) ==
    \/ (l.op = "tray_icon_event" /\ l.event.type = "Click"
           /\ l.event.button = "Left" /\ l.event.button_state = "Up")
    \/ (l.op = "tray_menu_event" /\ l.id = "tray_show_hide")

\* C17: a startup trigger, a tray toggle or a second-instance activation
\* that finds its window absent runs to its end and leaves the windows as
\* they are; a trigger closes the splash whether or not main exists and
\* shows main whether or not the splash exists.
C17_AbsentTargetsTolerated ==
    [][ /\ (TriggerCloseStep =>
               /\ (readyPc' = "show_main" \/ readyPc' = readyPc)
               /\ (timerPc' = "show_main" \/ timerPc' = timerPc)
               /\ (win.splashscreen => win' = [win EXCEPT !.splashscreen = FALSE])
               /\ (~win.splashscreen => win' = win))
        /\ (TriggerShowStep =>
               /\ (readyPc' = "done" \/ readyPc' = readyPc)
               /\ (timerPc' = "done" \/ timerPc' = timerPc)
               /\ (win.main => win' = [win EXCEPT !.visible = TRUE])
               /\ (~win.main => win' = win))
        /\ (IsToggle(last') /\ ~win.main => win' = win /\ ~exited')
        /\ (last'.op = "single_instance" /\ ~win.main => win' = win /\ ~exited') ]_vars

\* C17 witness: the timer ran after the ready signal in an instance without
\* a main window: it found neither window and ran to its end.
C17_Witness ==
    /\ ~exited /\ ~win.main /\ ~win.splashscreen
    /\ readyPc = "done" /\ timerPc = "done"
    /\ last = [op |-> "fallback_timer", step |-> "show_main"]

\* C18: main goes from visible to hidden only in a step that calls
\* toggle_window_visibility, and a closed splash is never present again.
C18_OnlyToggleHides ==
    [][ /\ (win.main /\ win.visible /\ win'.main /\ ~win'.visible => IsToggle(last'))
        /\ (~win.splashscreen => ~win'.splashscreen) ]_vars

\* C18 witness: a tray click hid main after the splash was closed.
C18_Witness ==
    /\ IsToggle(last) /\ last.op = "tray_icon_event" /\ last.before
    /\ win.main /\ ~win.visible /\ ~win.splashscreen

\* C19: toggle_window_visibility hides main only when the visibility query
\* succeeded (and reported visible); when the query fails it shows main and
\* requests focus, whatever main's visibility was.
C19_FailedQueryShows ==
    [][ IsToggle(last') /\ win.main =>
          /\ (win.visible /\ ~win'.visible => last'.query = "Ok")
          /\ (last'.query = "Err" => win' = [win EXCEPT !.visible = TRUE, !.focused = TRUE]) ]_vars

\* C19 witness: a click on a visible main whose query failed left it visible.
C19_Witness ==
    /\ last.op = "tray_icon_event" /\ IsToggle(last)
    /\ last.query = "Err" /\ last.before
    /\ win.main /\ win.visible /\ win.focused

\* C20: driven by the same ready signals, timer expiries and deep-link
\* batches, the packages/desktop shell and the apps/desktop shell have the
\* same splash and main window states and emit the same deep-link-auth
\* notifications.
C20_ShellsAgree ==
    /\ pkg.win.splashscreen = win.splashscreen
    /\ pkg.win.main = win.main
    /\ pkg.win.visible = win.visible
    /\ pkg.emitted = IF last.op = "open_url" THEN last.emitted ELSE <<>>

\* C20 witness: after both triggers, both shells forwarded a batch of two
\* callbacks.
C20_Witness ==
    /\ BothTriggersDone
    /\ last.op = "open_url" /\ Len(last.urls) = 2 /\ last.urls[1] # last.urls[2]
    /\ Len(pkg.emitted) = 2
    /\ pkg.win.main /\ pkg.win.visible /\ ~pkg.win.splashscreen

====
